---- MODULE Spec2Model ----
(***************************************************************************)
(* Model of the star-jar-counting repository.                              *)
(*                                                                         *)
(*   src/main_1.py  GodelianJar    the fullscreen animator: the event      *)
(*                                 drain, the per-frame updates, the       *)
(*                                 render and the frame counter            *)
(*   src/main.py    GodelianJar3D  the static visualizer: construction,    *)
(*                                 the drag handler and the rotation       *)
(*                                 export                                  *)
(*                                                                         *)
(* Numbers.  Python floats are kept as fixed-point integers:               *)
(*   counting_progress  in units of 1/PScale percent,                      *)
(*   sines              in units of 1/SinScale,                            *)
(*   star depth         in tenths, flicker probability in thousandths.     *)
(* A random draw is a nondeterministic choice over its possible outcomes.  *)
(***************************************************************************)
EXTENDS Integers, Sequences, FiniteSets, TLC

(***************************************************************************)
(* Bounds of the model                                                     *)
(***************************************************************************)
\* largest explicit num_objects passed to the constructors
MaxObjects == 2
\* number of loop iterations explored
MaxFrames == 362
\* the user's key events arrive in the iterations whose frame counter is a
\* multiple of EventEvery
EventEvery == 130
\* longest list one pygame.event.get() returns
MaxDrain == 2
\* largest num_frames passed to rotate_animation, beside the default
MaxNumFrames == 8
\* largest set of objects whose random draws are explored in every
\* combination; of a larger set three combinations are explored
MaxExhaustive == 4
\* number of loop iterations explored after a construction without a count
MaxCountFrames == 11
\* number of loop iterations explored where termination is checked, and the
\* largest explicit num_objects there
MaxLiveFrames == 132
MaxLiveObjects == 1
\* largest population whose paradoxical flags are generated and compared
MaxFlagObjects == 17

(***************************************************************************)
(* Program constants                                                       *)
(***************************************************************************)
PScale == 1000
SinScale == 100000
FullTurn == 360
rotation_speed == 1
count_update_interval == 10
statement_change_interval == 180
NumStatements == 5
FadeFull == 255
FadeFloor == 180
DebugEvery == 120
ExplicitUncertainty == 10
MinRandomCount == 35
MaxRandomCount == 65
MinUncertainty == 10
MaxUncertainty == 20
GodelEvery == 8

(***************************************************************************)
(* Arithmetic helpers                                                      *)
(***************************************************************************)
Abs(x) == IF x < 0 THEN -x ELSE x

Min(a, b) == IF a <= b THEN a ELSE b

Max(a, b) == IF a >= b THEN a ELSE b

\* math.sin of whole degrees 0..90, truncated to 1/SinScale
SinTab ==
  << 0, 1745, 3489, 5233, 6975, 8715, 10452, 12186, 13917, 15643,
     17364, 19080, 20791, 22495, 24192, 25881, 27563, 29237, 30901, 32556,
     34202, 35836, 37460, 39073, 40673, 42261, 43837, 45399, 46947, 48480,
     49999, 51503, 52991, 54463, 55919, 57357, 58778, 60181, 61566, 62932,
     64278, 65605, 66913, 68199, 69465, 70710, 71933, 73135, 74314, 75470,
     76604, 77714, 78801, 79863, 80901, 81915, 82903, 83867, 84804, 85716,
     86602, 87461, 88294, 89100, 89879, 90630, 91354, 92050, 92718, 93358,
     93969, 94551, 95105, 95630, 96126, 96592, 97029, 97437, 97814, 98162,
     98480, 98768, 99026, 99254, 99452, 99619, 99756, 99862, 99939, 99984,
     100000 >>

\* math.sin(math.radians(d)) for a whole number of degrees d >= 0
SinDeg(d) ==
  LET r == d % 360
  IN  IF r <= 90 THEN SinTab[r + 1]
      ELSE IF r <= 180 THEN SinTab[(180 - r) + 1]
      ELSE IF r <= 270 THEN -SinTab[(r - 180) + 1]
      ELSE -SinTab[(360 - r) + 1]

\* int(x): Python's float-to-int conversion truncates toward zero.
\* TruncDiv(n, d) is int(n / d) for d > 0.
TruncDiv(n, d) == IF n >= 0 THEN n \div d ELSE -((-n) \div d)


(***************************************************************************)
(* State                                                                   *)
(***************************************************************************)
VARIABLES
  \* ---- GodelianJar (src/main_1.py) ----
  count_arg,              \* history: the constructor's num_objects argument
  num_objects,            \* self.num_objects
  uncertainty,            \* self.uncertainty
  debug_mode,             \* self.debug_mode
  stars,                  \* self.stars: (x, y) per object
  star_visibility,        \* self.star_visibility
  star_depths,            \* self.star_depths, in tenths
  star_sizes,             \* self.star_sizes
  star_flicker,           \* self.star_flicker, in thousandths
  star_godel_status,      \* self.star_godel_status
  rotation_angle,         \* self.rotation_angle
  apparent_count,         \* self.apparent_count
  current_statement,      \* self.current_statement
  statement_fade,         \* self.statement_fade
  show_counting_attempt,  \* self.show_counting_attempt
  counting_progress,      \* self.counting_progress, in 1/PScale percent
  counting_error,         \* self.counting_error
  error_latched,          \* history: counting_error was set by the > 90 test
  running,                \* run_animation's local `running`
  frame_count,            \* run_animation's local `frame_count`
  queued,                 \* events of this pygame.event.get() not yet handled
  last_event,             \* history: the event last handled in this drain
  fullscreen,             \* display mode (pygame.FULLSCREEN, toggle_fullscreen)
  screen,                 \* what the last render_frame put on the display
  debug_line,             \* the diagnostic line printed by the last iteration
  pc,                     \* position in run_animation
  \* ---- GodelianJar3D (src/main.py) ----
  num_objects3d,          \* self.num_objects
  has_uncertainty3d,      \* whether the attribute self.uncertainty exists
  uncertainty3d,          \* self.uncertainty (meaningful when it exists)
  object_positions3d,     \* self.object_positions
  title3d,                \* the count in the title of the open figure, 0 without one
  saved3d,                \* angles of the files rotate_animation has written
  export3d,               \* rotate_animation: num_frames, the step, the next angle
  pc3d                    \* position in the static program

animVars ==
  << count_arg, num_objects, uncertainty, debug_mode, stars, star_visibility, star_depths,
     star_sizes, star_flicker, star_godel_status, rotation_angle,
     apparent_count, current_statement, statement_fade,
     show_counting_attempt, counting_progress, counting_error,
     error_latched, running, frame_count, queued, last_event, fullscreen, screen,
     debug_line, pc >>

staticVars ==
  << num_objects3d, has_uncertainty3d, uncertainty3d, object_positions3d,
     title3d, saved3d, export3d, pc3d >>

vars == << animVars, staticVars >>

\* the six per-object sequences
objectVars ==
  << stars, star_visibility, star_depths, star_sizes, star_flicker,
     star_godel_status >>

(***************************************************************************)
(* GodelianJar.generate_objects                                            *)
(***************************************************************************)
\* The draws of one loop iteration of generate_objects: the position (from
\* angle, radius_factor, depth and the vertical draw), the depth, the size
\* and the flicker rate.  depth in [-1.0, 1.0] (tenths), flicker in
\* [0.02, 0.1) (thousandths).  Two outcomes are explored.
StarDraws ==
  << [pos |-> <<930, 300>>, depth |-> -9, size |-> 6, flicker |-> 20],
     [pos |-> <<1010, 640>>, depth |-> 1, size |-> 10, flicker |-> 99] >>

\* The sequences of n draws explored, given two outcomes of one draw: every
\* object the same outcome (equal depths), or the two outcomes alternating,
\* the nearer object first (depths out of order).
DrawFamily(n, outcomes) ==
  { [k \in 1..n |-> outcomes[1]],
    [k \in 1..n |-> outcomes[1 + (k % 2)]] }

DrawSequences(n) == DrawFamily(n, StarDraws)

\* the outcomes of `random.random() < p` (p in thousandths): random() is in
\* [0, 1)
RandomLess(p) == {b \in BOOLEAN : (b => p > 0) /\ (~b => p < 1000)}

\* the outcomes of `random.random() > p`
RandomGreater(p) == {b \in BOOLEAN : (b => p < 1000) /\ (~b => p >= 0)}

\* the flag taken from the 1-based k in place of the 0-based i
IsGodelIndex_one_based(k) == k % GodelEvery = 0

\* star_godel_status.append(i % 8 == 0) for the 0-based i of the 1-based k
IsGodelIndex(k) == (k - 1) % GodelEvery = 0

\* num_objects=None, the default of the constructor's argument
NoCount == 0

\* self.num_objects after __init__(num_objects=arg): random.randint(35, 65)
\* without an argument
ConstructedCount(arg) ==
  IF arg = NoCount THEN MinRandomCount..MaxRandomCount ELSE {arg}

\* the uncertainty drawn in both branches of the constructor
ConstructedUncertainty_drawn(arg) == MinUncertainty..MaxUncertainty

\* self.uncertainty after __init__(num_objects=arg): random.randint(10, 20)
\* without an argument, 10 with one
ConstructedUncertainty(arg) ==
  IF arg = NoCount THEN MinUncertainty..MaxUncertainty
  ELSE {ExplicitUncertainty}

\* generate_objects with the size appended for every star but the last
generate_objects_short(n, d, v) ==
  [ stars             |-> [k \in 1..n |-> d[k].pos],
    star_visibility   |-> [k \in 1..n |-> v[k]],
    star_depths       |-> [k \in 1..n |-> d[k].depth],
    star_sizes        |-> [k \in 1..(n - 1) |-> d[k].size],
    star_flicker      |-> [k \in 1..n |-> d[k].flicker],
    star_godel_status |-> [k \in 1..n |-> IsGodelIndex(k)] ]

\* The six sequences generate_objects builds for n objects: d[k] are the
\* draws of iteration k - 1 and v[k] its initial visibility draw
\* (random.random() > 0.1).
generate_objects(n, d, v) ==
  [ stars             |-> [k \in 1..n |-> d[k].pos],
    star_visibility   |-> [k \in 1..n |-> v[k]],
    star_depths       |-> [k \in 1..n |-> d[k].depth],
    star_sizes        |-> [k \in 1..n |-> d[k].size],
    star_flicker      |-> [k \in 1..n |-> d[k].flicker],
    star_godel_status |-> [k \in 1..n |-> IsGodelIndex(k)] ]

\* The subsets of the objects c that one round of yes/no draws, one per
\* object, can select: every subset, or for a large c none, all, and every
\* third object.
DrawnSubsets(c) ==
  IF Cardinality(c) <= MaxExhaustive THEN SUBSET c
  ELSE {{}, c, {k \in c : k % 3 = 1}}

\* the initial visibility draws (random.random() > 0.1) of n objects
VisibilityDraws(n) ==
  {[k \in 1..n |-> k \in f] :
     f \in {g \in DrawnSubsets(1..n) :
              \A k \in 1..n : (k \in g) \in RandomGreater(100)}}

\* every population generate_objects can build for n objects
Populations(n) ==
  {generate_objects(n, d, v) :
     d \in DrawSequences(n), v \in VisibilityDraws(n)}

(***************************************************************************)
(* GodelianJar.update_object_visibility                                    *)
(***************************************************************************)
\* abs(math.sin(math.radians(self.rotation_angle)))
VisAngleFactor(angle) == Abs(SinDeg(angle))

\* the indices a flip may hit: f1 the flicker flips, f2 the flips of Goedel
\* stars during a counting attempt, f3 their flips at steep angles
FlickerFlips(n, flicker) ==
  {f \in DrawnSubsets(1..n) :
     \A k \in 1..n : (k \in f) \in RandomLess(flicker[k])}

CountingFlips(n, godel, show) ==
  IF show THEN DrawnSubsets({k \in 1..n : godel[k]}) ELSE {{}}

AngleFlips(n, godel, angle) ==
  IF VisAngleFactor(angle) > 7 * (SinScale \div 10)
  THEN DrawnSubsets({k \in 1..n : godel[k]}) ELSE {{}}

Flip(b, yes) == IF yes THEN ~b ELSE b

\* the visibility after the three flips of every index
FlippedVisibility(n, vis, f1, f2, f3) ==
  [k \in 1..n |-> Flip(Flip(Flip(vis[k], k \in f1), k \in f2), k \in f3)]

(***************************************************************************)
(* GodelianJar.update_apparent_count                                       *)
(***************************************************************************)
\* sum(self.star_visibility)
TrueVisible(vis) == Cardinality({k \in 1..Len(vis) : vis[k]})

\* math.sin(math.radians(self.rotation_angle * 2))
CountAngleFactor(angle) == SinDeg(angle * 2)

\* godel_factor in units of 1/(200 * PScale):
\* 1.0, or 1.0 + (counting_progress / 100) * 0.5 during an attempt
GodelFactor(show, progress) ==
  IF show THEN 200 * PScale + progress ELSE 200 * PScale

\* the variation rounded down (math.floor) instead of toward zero
CountVariation_floor(af, unc, gf) ==
  LET a  == Abs(af) * unc
      gh == gf \div 1000
      gl == gf % 1000
      m  == a * gh + (a * gl) \div 1000
      u  == SinScale * ((200 * PScale) \div 1000)
      q  == m \div u
  IN  IF af >= 0 THEN q
      ELSE IF m % u = 0 /\ (a * gl) % 1000 = 0 THEN -q ELSE -q - 1

\* int(angle_factor * self.uncertainty * godel_factor).  The product
\* |af| * unc * gf is formed in two halves (gf = gh * 1000 + gl) to stay
\* within 32 bits; the quotient is exact.
CountVariation(af, unc, gf) ==
  LET a  == Abs(af) * unc
      gh == gf \div 1000
      gl == gf % 1000
      q  == (a * gh + (a * gl) \div 1000) \div (SinScale * ((200 * PScale) \div 1000))
  IN  IF af < 0 THEN -q ELSE q

\* update_apparent_count without its max(1, ...)
ApparentCount_nofloor(visible, angle, unc, show, progress) ==
  visible + CountVariation(CountAngleFactor(angle), unc, GodelFactor(show, progress))

\* self.apparent_count after update_apparent_count
ApparentCount(visible, angle, unc, show, progress) ==
  Max(1, visible + CountVariation(CountAngleFactor(angle), unc, GodelFactor(show, progress)))

\* the recompute of the error flag without its show_counting_attempt test
ErrorAfterCount_always(show, progress, err) ==
  IF progress > 50 * PScale THEN RandomLess(200) ELSE {err}

\* the values counting_error can have after update_apparent_count
ErrorAfterCount(show, progress, err) ==
  IF show /\ progress > 50 * PScale THEN RandomLess(200) ELSE {err}

(***************************************************************************)
(* GodelianJar.render_frame                                                *)
(***************************************************************************)
\* the indices in storage order, not sorted
depth_sorted_indices_unsorted(n, depths) == [i \in 1..n |-> i]

\* sorted(range(len(self.stars)), key=lambda i: self.star_depths[i]):
\* ascending by depth; Python's sort is stable, so equal depths keep their
\* index order.
depth_sorted_indices(n, depths) ==
  SortSeq([i \in 1..n |-> i],
          LAMBDA j, i : depths[j] < depths[i]
                          \/ (depths[j] = depths[i] /\ j < i))

\* 30 * math.sin(math.radians(self.rotation_angle)) * self.star_depths[idx],
\* in whole pixels
RotationOffset(angle, depth) == TruncDiv(30 * SinDeg(angle) * depth, SinScale * 10)

\* one draw_star call: the arguments render_frame passes
DrawnStar(idx, angle) ==
  [ idx   |-> idx,
    x     |-> stars[idx][1] + RotationOffset(angle, star_depths[idx]),
    y     |-> stars[idx][2],
    size  |-> star_sizes[idx],
    depth |-> star_depths[idx],
    godel |-> star_godel_status[idx] ]

\* the draw_star calls of one render_frame, in order
DrawnStars ==
  LET order == depth_sorted_indices(Len(stars), star_depths)
      vis   == SelectSeq(order, LAMBDA idx : star_visibility[idx])
  IN  [j \in 1..Len(vis) |-> DrawnStar(vis[j], rotation_angle)]

\* what render_frame puts on the display
RenderedFrame ==
  [ stars     |-> DrawnStars,
    count     |-> apparent_count,
    status    |-> IF show_counting_attempt
                  THEN << counting_progress, counting_error >> ELSE << >>,
    statement |-> current_statement,
    fade      |-> statement_fade ]

\* the display before the first render_frame
BlankFrame ==
  [ stars |-> << >>, count |-> 0, status |-> << >>, statement |-> 0, fade |-> 0 ]

(***************************************************************************)
(* GodelianJar.run_animation: counting progress                            *)
(***************************************************************************)
\* the increment with progress / 100 in place of progress / 200
ProgressIncrement_steep(p) == (100 * PScale - p + 100) \div 200

\* progress_increment = 0.5 * (1.0 - self.counting_progress / 200),
\* rounded to the nearest 1/PScale
ProgressIncrement(p) == (200 * PScale - p + 200) \div 400

\* min(100, self.counting_progress + progress_increment)
ProgressStep(p) == Min(100 * PScale, p + ProgressIncrement(p))

\* the outcomes of `self.counting_progress > 90 and random.random() < 0.1`
\* for the progress p just stored
LatchDraws(p) == IF p > 90 * PScale THEN RandomLess(100) ELSE {FALSE}

\* History of the error flag: whether its value TRUE was last written by the
\* `> 90` test of the progress update.  The recompute in
\* update_apparent_count and the key handlers overwrite the flag.
ErrorLatched(recomputes, latch, before) ==
  IF latch THEN TRUE ELSE IF recomputes THEN FALSE ELSE before

(***************************************************************************)
(* The events of one pygame.event.get()                                    *)
(***************************************************************************)
\* QUIT, the four keys run_animation reads, and any other event
EventKinds == {"QUIT", "K_ESCAPE", "K_SPACE", "K_r", "K_f", "OTHER"}

\* History of the drain: the kind of the event last handled in this
\* iteration and the counting-attempt state it met.
NoEvent == [kind |-> "none", show |-> FALSE, progress |-> 0, error |-> FALSE]

EventMet(k) ==
  [ kind     |-> k,
    show     |-> show_counting_attempt,
    progress |-> counting_progress,
    error    |-> counting_error ]

\* the lengths of the list pygame.event.get() can return in frame fc; the
\* kind of each event is drawn when the loop reaches it
DrainLengths(fc) == IF fc % EventEvery = 0 THEN 0..MaxDrain ELSE {0}

(***************************************************************************)
(* Initial states                                                          *)
(***************************************************************************)
\* the static visualizer is not constructed
StaticIdle ==
  /\ num_objects3d = 0
  /\ has_uncertainty3d = FALSE
  /\ uncertainty3d = 0
  /\ object_positions3d = << >>
  /\ title3d = 0
  /\ saved3d = << >>
  /\ export3d = [frames |-> 0, step |-> 0, angle |-> 0]
  /\ pc3d = "absent"

\* the animator is not constructed
AnimIdle ==
  /\ count_arg = NoCount
  /\ num_objects = 0
  /\ uncertainty = 0
  /\ debug_mode = FALSE
  /\ stars = << >>
  /\ star_visibility = << >>
  /\ star_depths = << >>
  /\ star_sizes = << >>
  /\ star_flicker = << >>
  /\ star_godel_status = << >>
  /\ rotation_angle = 0
  /\ apparent_count = 0
  /\ current_statement = 0
  /\ statement_fade = 0
  /\ show_counting_attempt = FALSE
  /\ counting_progress = 0
  /\ counting_error = FALSE
  /\ error_latched = FALSE
  /\ running = FALSE
  /\ frame_count = 0
  /\ queued = 0
  /\ last_event = NoEvent
  /\ fullscreen = FALSE
  /\ screen = BlankFrame
  /\ debug_line = << >>
  /\ pc = "absent"

\* The state after GodelianJar(num_objects=arg, debug_mode=dbg) and the
\* first lines of run_animation, for the count n, the uncertainty unc and the
\* population o the constructor arrived at.
Constructed(arg, dbg, n, unc, o) ==
  /\ count_arg = arg
  /\ num_objects = n
  /\ uncertainty = unc
  /\ debug_mode = dbg
  /\ stars = o.stars
  /\ star_visibility = o.star_visibility
  /\ star_depths = o.star_depths
  /\ star_sizes = o.star_sizes
  /\ star_flicker = o.star_flicker
  /\ star_godel_status = o.star_godel_status
  /\ rotation_angle = 0
  /\ apparent_count = n
  /\ current_statement = 0
  /\ statement_fade = FadeFull
  /\ show_counting_attempt = FALSE
  /\ counting_progress = 0
  /\ counting_error = FALSE
  /\ error_latched = FALSE
  /\ running = TRUE
  /\ frame_count = 0
  /\ queued = 0
  /\ last_event = NoEvent
  /\ fullscreen = TRUE
  /\ screen = BlankFrame
  /\ debug_line = << >>
  /\ pc = "poll"

\* GodelianJar(num_objects=arg, debug_mode=dbg) with an explicit count of at
\* most m
InitAnimUpTo(m) ==
  \E arg \in 1..m, dbg \in BOOLEAN :
    \E n \in ConstructedCount(arg), unc \in ConstructedUncertainty(arg) :
      \E o \in Populations(n) : Constructed(arg, dbg, n, unc, o)

InitAnim == InitAnimUpTo(MaxObjects)

\* the least, the middle and the greatest outcome of a randint
Sampled(S) ==
  LET lo == CHOOSE x \in S : \A y \in S : x <= y
      hi == CHOOSE x \in S : \A y \in S : x >= y
  IN  {lo, (lo + hi) \div 2, hi}

\* GodelianJar(debug_mode=dbg), as in the main block: no count given
InitAnimRandom ==
  \E dbg \in BOOLEAN :
    \E n \in Sampled(ConstructedCount(NoCount)),
       unc \in Sampled(ConstructedUncertainty(NoCount)) :
      \E o \in Populations(n) : Constructed(NoCount, dbg, n, unc, o)

Init == InitAnim /\ StaticIdle


(***************************************************************************)
(* GodelianJar.run_animation: the event drain                              *)
(***************************************************************************)
\* for event in pygame.event.get():
PollEvents ==
  /\ pc = "poll"
  /\ running
  /\ frame_count < MaxFrames
  /\ queued' \in DrainLengths(frame_count)
  /\ last_event' = NoEvent
  /\ pc' = "events"
  /\ UNCHANGED << count_arg, num_objects, uncertainty, debug_mode, objectVars,
                  rotation_angle, apparent_count, current_statement,
                  statement_fade, show_counting_attempt, counting_progress,
                  counting_error, error_latched, running, frame_count,
                  fullscreen, screen, debug_line, staticVars >>

\* the loop is at an event of kind k
AtEvent(k) ==
  /\ pc = "events"
  /\ queued > 0
  /\ k \in EventKinds

\* what every branch of the event loop leaves alone
EventFrame(k) ==
  /\ queued' = queued - 1
  /\ last_event' = EventMet(k)
  /\ UNCHANGED << count_arg, num_objects, uncertainty, debug_mode,
                  rotation_angle, apparent_count, current_statement,
                  statement_fade, frame_count, screen, debug_line, pc,
                  staticVars >>

\* a QUIT that leaves the loop at once, as a `break` out of `while` would
HandleQuit_break ==
  /\ AtEvent("QUIT")
  /\ running' = FALSE
  /\ queued' = 0
  /\ last_event' = EventMet("QUIT")
  /\ pc' = "poll"
  /\ UNCHANGED << count_arg, num_objects, uncertainty, debug_mode,
                  objectVars, rotation_angle, apparent_count,
                  current_statement, statement_fade, show_counting_attempt,
                  counting_progress, counting_error, error_latched,
                  frame_count, fullscreen, screen, debug_line, staticVars >>

\* event.type == pygame.QUIT
HandleQuit ==
  /\ AtEvent("QUIT")
  /\ running' = FALSE
  /\ EventFrame("QUIT")
  /\ UNCHANGED << objectVars, show_counting_attempt, counting_progress,
                  counting_error, error_latched, fullscreen >>

\* event.key == pygame.K_ESCAPE
HandleEscape ==
  /\ AtEvent("K_ESCAPE")
  /\ running' = FALSE
  /\ EventFrame("K_ESCAPE")
  /\ UNCHANGED << objectVars, show_counting_attempt, counting_progress,
                  counting_error, error_latched, fullscreen >>

\* a Space key that zeroes the progress on toggle-off as well
ToggleProgress_zero(show_after, progress) == 0

\* a Space key that leaves the error flag alone on toggle-on
ToggleError_keep(show_after, err) == err

\* counting_progress and counting_error after a Space key, given the new
\* value of show_counting_attempt
ToggleProgress(show_after, progress) == IF show_after THEN 0 ELSE progress

ToggleError(show_after, err) == IF show_after THEN FALSE ELSE err

\* event.key == pygame.K_SPACE
HandleSpace ==
  /\ AtEvent("K_SPACE")
  /\ show_counting_attempt' = ~show_counting_attempt
  /\ counting_progress' = ToggleProgress(show_counting_attempt', counting_progress)
  /\ counting_error' = ToggleError(show_counting_attempt', counting_error)
  /\ error_latched' = (IF show_counting_attempt' THEN FALSE ELSE error_latched)
  /\ EventFrame("K_SPACE")
  /\ UNCHANGED << objectVars, running, fullscreen >>

\* an R key that forgets to zero the progress
ResetCounting_keeps_progress ==
  [show |-> FALSE, progress |-> counting_progress, error |-> FALSE]

\* the counting-attempt state the R key stores
ResetCounting == [show |-> FALSE, progress |-> 0, error |-> FALSE]

\* event.key == pygame.K_r
HandleReset ==
  /\ AtEvent("K_r")
  /\ show_counting_attempt' = ResetCounting.show
  /\ counting_progress' = ResetCounting.progress
  /\ counting_error' = ResetCounting.error
  /\ error_latched' = FALSE
  /\ \E o \in Populations(num_objects) :
       /\ stars' = o.stars
       /\ star_visibility' = o.star_visibility
       /\ star_depths' = o.star_depths
       /\ star_sizes' = o.star_sizes
       /\ star_flicker' = o.star_flicker
       /\ star_godel_status' = o.star_godel_status
  /\ EventFrame("K_r")
  /\ UNCHANGED << running, fullscreen >>

\* event.key == pygame.K_f
HandleFullscreen ==
  /\ AtEvent("K_f")
  /\ fullscreen' = ~fullscreen
  /\ EventFrame("K_f")
  /\ UNCHANGED << objectVars, show_counting_attempt, counting_progress,
                  counting_error, error_latched, running >>

\* any other event type or key: no branch matches
HandleOther ==
  /\ AtEvent("OTHER")
  /\ EventFrame("OTHER")
  /\ UNCHANGED << objectVars, show_counting_attempt, counting_progress,
                  counting_error, error_latched, running, fullscreen >>

(***************************************************************************)
(* GodelianJar.run_animation: the updates of one frame                     *)
(***************************************************************************)
\* the wrap tested with > in place of >=
NextAngle_late(angle) ==
  LET a == angle + rotation_speed
  IN  IF a > FullTurn THEN 0 ELSE a

\* self.rotation_angle += self.rotation_speed; if >= 360: 0
NextAngle(angle) ==
  LET a == angle + rotation_speed
  IN  IF a >= FullTurn THEN 0 ELSE a

\* if frame_count % self.count_update_interval == 0
CountDue(fc) == fc % count_update_interval = 0

\* if frame_count % self.statement_change_interval == 0
StatementDue(fc) == fc % statement_change_interval = 0

\* self.current_statement after the statement update of frame fc
NextStatement(fc, cur) ==
  IF StatementDue(fc) THEN (cur + 1) % NumStatements ELSE cur

\* the reset made after the fade step instead of before it
NextFade_reset_last(fc, fade) ==
  IF StatementDue(fc) THEN FadeFull
  ELSE IF fc % 2 = 0 /\ fade > FadeFloor THEN fade - 1 ELSE fade

\* self.statement_fade after the statement update and the fade of frame fc
NextFade(fc, fade) ==
  LET reset == IF StatementDue(fc) THEN FadeFull ELSE fade
  IN  IF fc % 2 = 0 /\ reset > FadeFloor THEN reset - 1 ELSE reset

\* if self.show_counting_attempt and self.counting_progress < 100
ProgressDue(show, p) == show /\ p < 100 * PScale

\* self.counting_progress after the progress update of a frame
NextProgress(show, p) == IF ProgressDue(show, p) THEN ProgressStep(p) ELSE p

\* The event loop is over: the updates of one frame, in the order of the
\* code: rotation, visibility and count (when due), statement and fade,
\* counting progress and its error test.
UpdateFrame ==
  /\ pc = "events"
  /\ queued = 0
  /\ rotation_angle' = NextAngle(rotation_angle)
  /\ IF CountDue(frame_count)
     THEN /\ \E f1 \in FlickerFlips(num_objects, star_flicker),
                f2 \in CountingFlips(num_objects, star_godel_status,
                                     show_counting_attempt),
                f3 \in AngleFlips(num_objects, star_godel_status, rotation_angle') :
               star_visibility' =
                 FlippedVisibility(num_objects, star_visibility, f1, f2, f3)
          /\ apparent_count' =
               ApparentCount(TrueVisible(star_visibility'), rotation_angle',
                             uncertainty, show_counting_attempt,
                             counting_progress)
     ELSE UNCHANGED << star_visibility, apparent_count >>
  /\ current_statement' = NextStatement(frame_count, current_statement)
  /\ statement_fade' = NextFade(frame_count, statement_fade)
  /\ counting_progress' = NextProgress(show_counting_attempt, counting_progress)
  /\ \E recomputed \in (IF CountDue(frame_count)
                        THEN ErrorAfterCount(show_counting_attempt,
                                             counting_progress, counting_error)
                        ELSE {counting_error}) :
       \E latch \in (IF ProgressDue(show_counting_attempt, counting_progress)
                     THEN LatchDraws(counting_progress')
                     ELSE {FALSE}) :
         /\ counting_error' = (recomputed \/ latch)
         /\ error_latched' = ErrorLatched(CountDue(frame_count)
                                            /\ show_counting_attempt
                                            /\ counting_progress > 50 * PScale,
                                          latch, error_latched)
  /\ pc' = "render"
  /\ UNCHANGED << count_arg, num_objects, uncertainty, debug_mode, stars, star_depths,
                  star_sizes, star_flicker, star_godel_status,
                  show_counting_attempt, running, frame_count, queued, last_event,
                  fullscreen, screen, debug_line, staticVars >>

\* self.render_frame()
RenderFrame ==
  /\ pc = "render"
  /\ screen' = RenderedFrame
  /\ pc' = "tick"
  /\ UNCHANGED << count_arg, num_objects, uncertainty, debug_mode, objectVars,
                  rotation_angle, apparent_count, current_statement,
                  statement_fade, show_counting_attempt, counting_progress,
                  counting_error, error_latched, running, frame_count, queued, last_event,
                  fullscreen, debug_line, staticVars >>

\* the test made on the frame counter before it is advanced
DebugLine_early(dbg, fc, angle, count) ==
  IF dbg /\ (fc - 1) % DebugEvery = 0 THEN << fc, angle, count >> ELSE << >>

\* if self.debug_mode and frame_count % 120 == 0: the line printed
DebugLine(dbg, fc, angle, count) ==
  IF dbg /\ fc % DebugEvery = 0 THEN << fc, angle, count >> ELSE << >>

\* frame_count += 1; self.clock.tick(60); the debug line
Tick ==
  /\ pc = "tick"
  /\ frame_count' = frame_count + 1
  /\ debug_line' = DebugLine(debug_mode, frame_count', rotation_angle,
                             apparent_count)
  /\ pc' = "poll"
  /\ UNCHANGED << count_arg, num_objects, uncertainty, debug_mode, objectVars,
                  rotation_angle, apparent_count, current_statement,
                  statement_fade, show_counting_attempt, counting_progress,
                  counting_error, error_latched, running, queued, last_event, fullscreen, screen,
                  staticVars >>

\* `while running` is false: pygame.quit()
QuitPygame ==
  /\ pc = "poll"
  /\ ~running
  /\ pc' = "done"
  /\ UNCHANGED << count_arg, num_objects, uncertainty, debug_mode, objectVars,
                  rotation_angle, apparent_count, current_statement,
                  statement_fade, show_counting_attempt, counting_progress,
                  counting_error, error_latched, running, frame_count, queued, last_event,
                  fullscreen, screen, debug_line, staticVars >>

Next ==
  \/ PollEvents
  \/ HandleQuit
  \/ HandleEscape
  \/ HandleSpace
  \/ HandleReset
  \/ HandleFullscreen
  \/ HandleOther
  \/ UpdateFrame
  \/ RenderFrame
  \/ Tick
  \/ QuitPygame

Spec == Init /\ [][Next]_vars

\* The loop followed for MaxLiveFrames iterations.
NextLive ==
  \/ (frame_count < MaxLiveFrames /\ PollEvents)
  \/ HandleQuit
  \/ HandleEscape
  \/ HandleSpace
  \/ HandleReset
  \/ HandleFullscreen
  \/ HandleOther
  \/ UpdateFrame
  \/ RenderFrame
  \/ Tick
  \/ QuitPygame

InitLive == InitAnimUpTo(MaxLiveObjects) /\ StaticIdle

\* The interpreter keeps executing run_animation: a step that is possible is
\* eventually taken.
SpecLive == InitLive /\ [][NextLive]_vars /\ WF_vars(NextLive)

(***************************************************************************)
(* GodelianJar3D (src/main.py)                                             *)
(***************************************************************************)
MinRandomObjects == 35
MaxRandomObjects == 65
MinUncertainty3D == 5
MaxUncertainty3D == 15
DefaultFrames == 36

\* One iteration of GodelianJar3D.generate_objects: (x, y, z) in tenths, the
\* cylinder point plus the gauss noise.  Two outcomes are explored.
PositionDraws == << << 12, -30, 55 >>, << -41, 8, 101 >> >>

\* self.object_positions for n objects
generate_objects3d(n) == DrawFamily(n, PositionDraws)

\* the title visualize() sets: "Contains approximately N objects"
StaticTitle(n) == n

\* GodelianJar3D(): no count given
InitStaticRandom ==
  /\ num_objects3d \in MinRandomObjects..MaxRandomObjects
  /\ has_uncertainty3d = TRUE
  /\ uncertainty3d \in MinUncertainty3D..MaxUncertainty3D

\* GodelianJar3D(num_objects=n): the else branch sets num_objects only
InitStaticExplicit ==
  /\ num_objects3d \in 1..MaxObjects
  /\ has_uncertainty3d = FALSE
  /\ uncertainty3d = 0

InitStatic ==
  /\ AnimIdle
  /\ InitStaticRandom \/ InitStaticExplicit
  /\ object_positions3d \in generate_objects3d(num_objects3d)
  /\ title3d = 0
  /\ saved3d = << >>
  /\ export3d = [frames |-> 0, step |-> 0, angle |-> 0]
  /\ pc3d = "constructed"

\* fig = jar.visualize() then plt.show(), as in the main block: the figure,
\* its title and the motion handler
Visualize ==
  /\ pc3d \in {"constructed", "shown"}
  /\ title3d' = StaticTitle(num_objects3d)
  /\ pc3d' = "shown"
  /\ UNCHANGED << num_objects3d, has_uncertainty3d, uncertainty3d,
                  object_positions3d, saved3d, export3d, animVars >>

\* the buttons a motion_notify_event can carry: 0 for none, 1 the primary
MouseButtons == {0, 1, 3}

\* random.randint(-self.uncertainty, self.uncertainty) added to num_objects
DragCounts(n, unc) == {n + k : k \in (-unc)..unc}

\* on_rotate(event) of the figure on display
OnRotate ==
  /\ pc3d = "shown"
  /\ \E button \in MouseButtons :
       IF button = 1
       THEN IF has_uncertainty3d
            THEN /\ title3d' \in DragCounts(num_objects3d, uncertainty3d)
                 /\ pc3d' = pc3d
            ELSE \* self.uncertainty does not exist
                 /\ pc3d' = "AttributeError"
                 /\ title3d' = title3d
       ELSE UNCHANGED << title3d, pc3d >>
  /\ UNCHANGED << num_objects3d, has_uncertainty3d, uncertainty3d,
                  object_positions3d, saved3d, export3d, animVars >>

\* the frame counts rotate_animation is called with
FrameCounts == (1..MaxNumFrames) \cup {DefaultFrames, FullTurn + 1}

\* int(360 / num_frames)
ExportStep(num_frames) == FullTurn \div num_frames

\* rotate_animation(num_frames), called once plt.show() has returned (the
\* figure is closed) or before any figure: range(0, 360, step) is built; a
\* step of 0 raises ValueError
StartExport ==
  /\ pc3d \in {"constructed", "shown", "exported"}
  /\ \E nf \in FrameCounts :
       /\ export3d' = [frames |-> nf, step |-> ExportStep(nf), angle |-> 0]
       /\ pc3d' = IF ExportStep(nf) = 0 THEN "ValueError" ELSE "exporting"
  /\ saved3d' = << >>
  /\ title3d' = 0
  /\ UNCHANGED << num_objects3d, has_uncertainty3d, uncertainty3d,
                  object_positions3d, animVars >>

\* one iteration of the loop: visualize(), view_init, savefig of
\* jar_rotation_{angle}.png, plt.close(fig)
ExportFrame ==
  /\ pc3d = "exporting"
  /\ export3d.angle < FullTurn
  /\ title3d' = 0
  /\ saved3d' = Append(saved3d, export3d.angle)
  /\ export3d' = [export3d EXCEPT !.angle = @ + export3d.step]
  /\ UNCHANGED << num_objects3d, has_uncertainty3d, uncertainty3d,
                  object_positions3d, pc3d, animVars >>

\* the range is exhausted: the closing print
FinishExport ==
  /\ pc3d = "exporting"
  /\ export3d.angle >= FullTurn
  /\ pc3d' = "exported"
  /\ UNCHANGED << num_objects3d, has_uncertainty3d, uncertainty3d,
                  object_positions3d, title3d, saved3d, export3d, animVars >>

NextStatic ==
  \/ Visualize
  \/ OnRotate
  \/ StartExport
  \/ ExportFrame
  \/ FinishExport

SpecStatic == InitStatic /\ [][NextStatic]_vars

(***************************************************************************)
(* Both programs, constructed with or without a count                      *)
(***************************************************************************)
\* one of the two programs is started, in either way
InitCounts ==
  \/ (InitAnim \/ InitAnimRandom) /\ StaticIdle
  \/ InitStatic

\* the steps of the program that was started; the animation is followed for
\* MaxCountFrames iterations
NextCounts ==
  \/ (frame_count < MaxCountFrames /\ PollEvents)
  \/ HandleQuit
  \/ HandleEscape
  \/ HandleSpace
  \/ HandleReset
  \/ HandleFullscreen
  \/ HandleOther
  \/ UpdateFrame
  \/ RenderFrame
  \/ Tick
  \/ QuitPygame
  \/ Visualize
  \/ OnRotate
  \/ StartExport
  \/ ExportFrame
  \/ FinishExport

SpecCounts == InitCounts /\ [][NextCounts]_vars

(***************************************************************************)
(* Properties                                                              *)
(***************************************************************************)
\* counting-attempt state Inactive, progress 0, error flag false
CountingIdle ==
  /\ ~show_counting_attempt
  /\ counting_progress = 0
  /\ ~counting_error

\* every per-object sequence has num_objects entries
LengthsOK ==
  /\ Len(stars) = num_objects
  /\ Len(star_depths) = num_objects
  /\ Len(star_sizes) = num_objects
  /\ Len(star_visibility) = num_objects
  /\ Len(star_flicker) = num_objects
  /\ Len(star_godel_status) = num_objects

\* the six sequences as one population
CurrentObjects ==
  [ stars             |-> stars,
    star_visibility   |-> star_visibility,
    star_depths       |-> star_depths,
    star_sizes        |-> star_sizes,
    star_flicker      |-> star_flicker,
    star_godel_status |-> star_godel_status ]

\* C1: after an R key the counting attempt is Inactive with progress 0 and
\* the error flag false, and the six sequences are a freshly generated
\* population of num_objects entries; as long as R is the last event handled
\* in the drain this still holds when the frame is rendered and counted, and
\* no step other than a Space key ends the Inactive/0/false state.
C1_ResetClears ==
  /\ [](last_event.kind = "K_r" => CountingIdle /\ LengthsOK)
  /\ [](last_event.kind = "K_r" /\ pc = "events"
          => CurrentObjects \in Populations(num_objects))
  /\ [][CountingIdle /\ ~HandleSpace => CountingIdle']_vars

\* C1 witness: the frame of an R key that met an active attempt with
\* progress > 0 and the error flag set has been rendered
C1_Witness ==
  /\ pc = "tick"
  /\ last_event.kind = "K_r"
  /\ last_event.show
  /\ last_event.progress > 0
  /\ last_event.error
  /\ CountingIdle

\* C2 as claimed: a Space key that switches the attempt from Active to
\* Inactive leaves the progress at zero
C2_ToggleOffZeroes ==
  (pc = "events" /\ last_event.kind = "K_SPACE" /\ last_event.show)
    => (~show_counting_attempt /\ counting_progress = 0)

\* C2 amended: a Space key that switches the attempt from Active to Inactive
\* changes the active flag only; progress and error flag keep their values
C2_ToggleOffKeeps ==
  (pc = "events" /\ last_event.kind = "K_SPACE" /\ last_event.show)
    => /\ ~show_counting_attempt
       /\ counting_progress = last_event.progress
       /\ counting_error = last_event.error

\* C2 witness: an attempt with progress > 0 has just been toggled off
C2_Witness ==
  /\ pc = "events"
  /\ last_event.kind = "K_SPACE"
  /\ last_event.show
  /\ last_event.progress > 0
  /\ ~show_counting_attempt
  /\ counting_progress = last_event.progress

\* the events the claim C3 lets clear a latched error flag
LatchRelease == HandleReset \/ (HandleSpace /\ show_counting_attempt')

\* the recompute of update_apparent_count that draws the error flag anew
ErrorRecompute ==
  /\ UpdateFrame
  /\ frame_count % 10 = 0
  /\ show_counting_attempt
  /\ counting_progress > 50 * PScale

\* C3 as claimed: an error flag set by the "progress > 90" test stays true
\* through every step that is neither an R key nor a Space key that starts
\* an attempt
C3_LatchHolds ==
  [][error_latched /\ ~LatchRelease => counting_error']_vars

\* C3 amended: an error flag set by the "progress > 90" test stays true
\* through every step that is neither an R key, nor a Space key that starts
\* an attempt, nor an every-10-frames recompute made while the attempt is
\* active with progress > 50
C3_LatchHoldsUntilRecompute ==
  [][error_latched /\ ~LatchRelease /\ ~ErrorRecompute => counting_error']_vars

\* C3 witness: a latched error flag has survived a toggle-off
C3_Witness ==
  /\ error_latched
  /\ counting_error
  /\ ~show_counting_attempt
  /\ pc = "tick"

\* C6: the stored apparent count is an integer >= 1, so is the count of
\* every rendered frame, and so is the count update_apparent_count would
\* store for any number of visible objects and any uncertainty the
\* constructor can draw, at the angle and counting state of the moment
C6_ApparentCountFloor ==
  /\ apparent_count \in Nat
  /\ apparent_count >= 1
  /\ screen # BlankFrame => (screen.count \in Nat /\ screen.count >= 1)
  /\ (pc = "render" /\ CountDue(frame_count)) =>
       \A visible \in 0..num_objects, unc \in MinUncertainty..MaxUncertainty :
         ApparentCount(visible, rotation_angle, unc, show_counting_attempt,
                       counting_progress) >= 1

\* C6 witness: a recompute with no visible object and a negative variation
\* has stored 1
C6_Witness ==
  /\ pc = "render"
  /\ CountDue(frame_count)
  /\ ~show_counting_attempt
  /\ TrueVisible(star_visibility) = 0
  /\ CountVariation(CountAngleFactor(rotation_angle), uncertainty,
                    GodelFactor(FALSE, counting_progress)) < 0
  /\ apparent_count = 1

\* C7: the six per-object sequences have num_objects entries in every state,
\* and a frame's updates leave the length of star_visibility and the other
\* five sequences as they are
C7_ParallelArrays ==
  /\ []LengthsOK
  /\ [][UpdateFrame =>
          /\ Len(star_visibility') = Len(star_visibility)
          /\ UNCHANGED << stars, star_depths, star_sizes, star_flicker,
                          star_godel_status >>]_vars

\* C7 witness: a visibility update has run on a population built by an R key
C7_Witness ==
  /\ pc = "render"
  /\ CountDue(frame_count)
  /\ frame_count > 0
  /\ last_event.kind = "K_r"
  /\ LengthsOK

\* C8: the progress is within [0, 100] in every state; a frame of an active
\* attempt below 100 raises it, by at least a quarter percent unless it
\* reaches 100 (so 100 is reached within 400 active frames); at 100 the
\* frame updates leave it at 100
C8_ProgressBounded ==
  /\ [](counting_progress >= 0 /\ counting_progress <= 100 * PScale)
  /\ [][UpdateFrame /\ show_counting_attempt /\ counting_progress < 100 * PScale
          => /\ counting_progress' > counting_progress
             /\ \/ counting_progress' = 100 * PScale
                \/ counting_progress' >= counting_progress + PScale \div 4]_vars
  /\ [][UpdateFrame /\ counting_progress = 100 * PScale
          => counting_progress' = 100 * PScale]_vars

\* C8 witness: an active attempt shown at 100 by the last frame is still at
\* 100 after the next update
C8_Witness ==
  /\ pc = "render"
  /\ show_counting_attempt
  /\ screen.status = << 100 * PScale, counting_error >>
  /\ counting_progress = 100 * PScale

\* C9: a Space key that switches the attempt from Inactive to Active leaves
\* progress 0 and the error flag false
C9_ToggleOnClears ==
  (pc = "events" /\ last_event.kind = "K_SPACE" /\ ~last_event.show)
    => /\ show_counting_attempt
       /\ counting_progress = 0
       /\ ~counting_error

\* C9 witness: the Space key met progress and an error flag left over from
\* an earlier attempt
C9_Witness ==
  /\ pc = "events"
  /\ last_event.kind = "K_SPACE"
  /\ ~last_event.show
  /\ last_event.progress > 0
  /\ last_event.error
  /\ show_counting_attempt
  /\ counting_progress = 0

\* C10: the rotation angle is the number of rotation updates made so far,
\* modulo 360: frame_count before a frame's update, frame_count + 1 from the
\* update to the end of the frame; so it is 0 at the start, within [0, 360)
\* at every render and 0 again at the render of the 360th frame, not before
C10_RotationWrap ==
  /\ rotation_angle >= 0
  /\ rotation_angle < FullTurn
  /\ pc \in {"poll", "events", "done"} => rotation_angle = frame_count % FullTurn
  /\ pc \in {"render", "tick"} => rotation_angle = (frame_count + 1) % FullTurn

\* C10 witness: the 360th frame is about to be rendered with the angle 0
C10_Witness ==
  /\ pc = "render"
  /\ frame_count = FullTurn - 1
  /\ rotation_angle = 0

\* the flags of n objects in which exactly the indices 0, 8, 16, ... (the
\* 1-based k with (k - 1) mod 8 = 0) are set
EveryEighth(n) == [k \in 1..n |-> (k - 1) % 8 = 0]

\* C11: in every state object i is flagged paradoxical iff i mod 8 = 0 (i
\* the 0-based index); no step changes the flags, an R key regenerates the
\* same flags; and generate_objects builds this pattern for every population
\* of up to MaxFlagObjects objects, whatever the draws
C11_ParadoxFlags ==
  /\ [](star_godel_status = EveryEighth(num_objects))
  /\ [][star_godel_status' = star_godel_status]_vars
  /\ []((pc = "poll" /\ frame_count = 0) =>
         \A n \in 1..MaxFlagObjects : \A d \in DrawSequences(n) :
           generate_objects(n, d, [k \in 1..n |-> k % 3 # 0]).star_godel_status
             = EveryEighth(n))

\* C11 witness: the flags after visibility updates, a Space toggle and an R
\* key that met the running attempt, at the next visibility update: object
\* 0 flagged, object 1 not
C11_Witness ==
  /\ pc = "render"
  /\ CountDue(frame_count)
  /\ last_event.kind = "K_r"
  /\ last_event.show
  /\ frame_count >= EventEvery
  /\ num_objects >= 2
  /\ star_godel_status[1]
  /\ ~star_godel_status[2]

\* C12: constructed without a count, the animator has num_objects in
\* [35, 65] and uncertainty in [10, 20], and the static visualizer has
\* num_objects in [35, 65] and uncertainty in [5, 15]; constructed with a count
\* the animator has that count and uncertainty exactly 10; and no step of
\* either program (visibility update, toggle, reset, render, drag, export)
\* changes a count or an uncertainty
C12_CountBounds ==
  /\ []((pc # "absent" /\ count_arg = NoCount) =>
         /\ num_objects \in 35..65
         /\ uncertainty \in 10..20)
  /\ []((pc # "absent" /\ count_arg # NoCount) =>
         /\ num_objects = count_arg
         /\ uncertainty = 10)
  /\ []((pc3d # "absent" /\ has_uncertainty3d) =>
         /\ num_objects3d \in 35..65
         /\ uncertainty3d \in 5..15)
  /\ [][UNCHANGED << num_objects, uncertainty, num_objects3d,
                     has_uncertainty3d, uncertainty3d >>]_vars

\* C12 witness: an animator constructed without a count, with the greatest
\* count and uncertainty, at the visibility update that follows an R key
\* which met a running attempt
C12_Witness ==
  /\ count_arg = NoCount
  /\ num_objects = 65
  /\ uncertainty = 20
  /\ pc = "render"
  /\ CountDue(frame_count)
  /\ last_event.kind = "K_r"
  /\ last_event.show

\* C13: the iteration that advanced the frame counter to its present value
\* printed a diagnostic line iff debug mode is on and that value is a
\* positive multiple of 120; the line names that frame; without debug mode
\* there is never a line
C13_DebugCadence ==
  /\ (debug_line # << >>) <=>
       (debug_mode /\ frame_count > 0 /\ frame_count % 120 = 0)
  /\ debug_line # << >> => debug_line[1] = frame_count
  /\ ~debug_mode => debug_line = << >>

\* C13 witness: the second diagnostic line, printed when the counter
\* reached 240, after 119 iterations without a line
C13_Witness ==
  /\ pc = "poll"
  /\ debug_mode
  /\ frame_count = 240
  /\ debug_line = << 240, rotation_angle, apparent_count >>

\* C14: in the frame just rendered the stars drawn are exactly the visible
\* objects, each once, in non-decreasing order of depth, each with the y,
\* size, depth and paradoxical flag stored at its index and its stored x
\* shifted by the rotation offset of its own depth; and the depths 0.9, -0.5,
\* 0.1, -0.9 are painted in the order -0.9, -0.5, 0.1, 0.9
C14_PaintOrder ==
  pc = "tick" =>
    LET drawn   == screen.stars
        visible == {k \in 1..num_objects : star_visibility[k]}
    IN  /\ {drawn[j].idx : j \in 1..Len(drawn)} = visible
        /\ Len(drawn) = Cardinality(visible)
        /\ \A j \in 1..(Len(drawn) - 1) : drawn[j].depth <= drawn[j + 1].depth
        /\ \A j \in 1..Len(drawn) :
             LET i == drawn[j].idx
             IN  /\ drawn[j].y = stars[i][2]
                 /\ drawn[j].x - stars[i][1]
                      = RotationOffset(rotation_angle, star_depths[i])
                 /\ drawn[j].size = star_sizes[i]
                 /\ drawn[j].depth = star_depths[i]
                 /\ drawn[j].godel = star_godel_status[i]
        /\ depth_sorted_indices(4, << 9, -5, 1, -9 >>) = << 4, 2, 3, 1 >>

\* C14 witness: two visible stars stored nearer first have been painted
\* farther first
C14_Witness ==
  /\ pc = "tick"
  /\ Len(screen.stars) = 2
  /\ star_depths[1] > star_depths[2]
  /\ screen.stars[1].idx = 2
  /\ screen.stars[2].idx = 1

\* C15: once running is false it stays false, whatever events follow; the
\* iteration is completed (the events left are handled, the frame is updated
\* and rendered, the counter advanced); at the top of the loop no drain is
\* started, the loop ends with pygame.quit(); at that point the display
\* shows the state the last iteration arrived at; and a stop is always
\* followed by the end of the loop
C15_CooperativeStop ==
  /\ [][~running => ~running']_vars
  /\ [][(~running /\ pc = "events") =>
          \/ queued > 0 /\ queued' = queued - 1 /\ pc' = "events"
          \/ queued = 0 /\ UpdateFrame]_vars
  /\ [][(~running /\ pc = "render") => RenderFrame]_vars
  /\ [][(~running /\ pc = "tick") => Tick]_vars
  /\ [][(~running /\ pc = "poll") => pc' = "done"]_vars
  /\ [](pc = "done" =>
         /\ ~running
         /\ queued = 0
         /\ frame_count >= 1
         /\ rotation_angle = frame_count % FullTurn
         /\ screen = RenderedFrame)
  /\ (~running /\ pc # "absent") ~> (pc = "done")

\* C15 witness: the loop has ended after a stop that was followed, in the
\* same drain, by a Space key, in an iteration later than the first
C15_Witness ==
  /\ pc = "done"
  /\ last_event.kind = "K_SPACE"
  /\ frame_count > EventEvery
  /\ screen # BlankFrame

\* C16 as claimed: a frame in which the statement index advances (frame
\* counter a multiple of 180) is rendered with the fade 255, and the fade is
\* never below 180
C16_FadeStartsFull ==
  /\ (pc = "tick" /\ frame_count % 180 = 0) => screen.fade = 255
  /\ statement_fade >= 180
  /\ screen # BlankFrame => screen.fade >= 180

\* C16 amended: the frame in which the statement index advances is rendered
\* with the fade 254 (reset to 255 and lowered in the same update, the frame
\* counter being even); the frame k frames later is rendered with
\* max(180, 254 - k div 2), so the fade goes down by 1 on every even frame
\* until it is 180 and is never below 180
C16_FadeStartsLowered ==
  /\ (pc = "tick" /\ frame_count % 180 = 0) => screen.fade = 254
  /\ pc = "tick" =>
       screen.fade = Max(180, 254 - ((frame_count % 180) \div 2))
  /\ statement_fade >= 180
  /\ statement_fade <= 255
  /\ screen # BlankFrame => screen.fade >= 180

\* C16 witness: the third statement appears, after the fade of the second
\* had reached the floor
C16_Witness ==
  /\ pc = "tick"
  /\ frame_count = 180
  /\ screen.statement = 2
  /\ screen.fade = 254

\* The product |af| * unc * gf of a sine af (in 1/SinScale), an uncertainty
\* and a Goedel factor gf (in 1/(200 * PScale)), in units of 1/ProductUnit:
\* its whole part and whether a fraction of a unit is left.
ProductUnit == SinScale * 200

ProductWhole(af, unc, gf) ==
  LET a == Abs(af) * unc
  IN  a * (gf \div PScale) + (a * (gf % PScale)) \div PScale

ProductExact(af, unc, gf) == (Abs(af) * unc * (gf % PScale)) % PScale = 0

\* q is af * unc * gf rounded toward zero
IsTruncation(q, af, unc, gf) ==
  /\ Abs(q) * ProductUnit <= ProductWhole(af, unc, gf)
  /\ ProductWhole(af, unc, gf) < (Abs(q) + 1) * ProductUnit
  /\ q > 0 => af > 0
  /\ q < 0 => af < 0

\* q is the floor of af * unc * gf
IsFloor(q, af, unc, gf) ==
  IF af >= 0 THEN q >= 0 /\ IsTruncation(q, af, unc, gf)
  ELSE /\ q <= 0
       /\ \/ ProductWhole(af, unc, gf) < (-q) * ProductUnit
          \/ /\ ProductWhole(af, unc, gf) = (-q) * ProductUnit
             /\ ProductExact(af, unc, gf)
       /\ \/ ProductWhole(af, unc, gf) > (-q - 1) * ProductUnit
          \/ /\ ProductWhole(af, unc, gf) = (-q - 1) * ProductUnit
             /\ ~ProductExact(af, unc, gf)

\* the variations a recompute can add: |sin| <= 1, uncertainty <= 20,
\* factor <= 1.5
VariationRange == (-(3 * MaxUncertainty) \div 2 - 1)..((3 * MaxUncertainty) \div 2 + 1)

\* C17 as claimed: every recompute (the frame update of an iteration whose
\* frame counter is a multiple of 10) stores max(1, V + floor(a * uncertainty
\* * g)), V the objects flagged visible after the visibility update, a the
\* sine of twice the rotation angle, g the factor 1.0 or 1.0 + (progress /
\* 100) * 0.5 of the counting attempt
C17_CountFloors ==
  [][(pc = "events" /\ pc' = "render" /\ CountDue(frame_count)) =>
       \E q \in VariationRange :
         /\ IsFloor(q, CountAngleFactor(rotation_angle'), uncertainty,
                    GodelFactor(show_counting_attempt, counting_progress))
         /\ apparent_count' = Max(1, TrueVisible(star_visibility') + q)]_vars

\* C17 amended: every recompute (the frame update of an iteration whose
\* frame counter is a multiple of 10) stores max(1, V + t), t the product a
\* * uncertainty * g rounded toward zero (int()): a count above 1 is V + t,
\* and the count 1 is stored for a V + t of at most 1; and for the least and the
\* greatest uncertainty the constructor can draw the variation computed is
\* the product rounded toward zero
C17_CountTruncates ==
  [][(pc = "events" /\ pc' = "render" /\ CountDue(frame_count)) =>
       LET af == CountAngleFactor(rotation_angle')
           gf == GodelFactor(show_counting_attempt, counting_progress)
           v  == TrueVisible(star_visibility')
       IN  /\ IF apparent_count' > 1
              THEN IsTruncation(apparent_count' - v, af, uncertainty, gf)
              ELSE /\ apparent_count' = 1
                   /\ \E q \in VariationRange :
                        q <= 1 - v /\ IsTruncation(q, af, uncertainty, gf)
           /\ \A unc \in {MinUncertainty, MaxUncertainty} :
                IsTruncation(CountVariation(af, unc, gf), af, unc, gf)]_vars

\* C17 witness: a recompute outside a counting attempt with a negative
\* product above -1 has stored the number of visible objects, one more than
\* the floor gives
C17_Witness ==
  /\ pc = "render"
  /\ CountDue(frame_count)
  /\ ~show_counting_attempt
  /\ last_event.kind = "none"
  /\ CountAngleFactor(rotation_angle) < 0
  /\ IsTruncation(0, CountAngleFactor(rotation_angle), uncertainty,
                  GodelFactor(FALSE, counting_progress))
  /\ IsFloor(-1, CountAngleFactor(rotation_angle), uncertainty,
             GodelFactor(FALSE, counting_progress))
  /\ TrueVisible(star_visibility) = 2
  /\ apparent_count = 2

\* C4 as claimed: rotate_animation does not fail, and once finished it has
\* written num_frames files, the k-th for the angle (k - 1) * int(360 /
\* num_frames), all below 360
C4_ExportExact ==
  /\ pc3d # "ValueError"
  /\ pc3d = "exported" =>
       /\ Len(saved3d) = export3d.frames
       /\ \A k \in 1..Len(saved3d) :
            /\ saved3d[k] = (k - 1) * ExportStep(export3d.frames)
            /\ saved3d[k] < FullTurn

\* C5 as claimed: a drag with the primary button does not fail, and the
\* title shows num_objects + k for a k in [-uncertainty, uncertainty]
C5_DragCounts ==
  /\ pc3d # "AttributeError"
  /\ (pc3d = "shown" /\ has_uncertainty3d) =>
       title3d \in DragCounts(num_objects3d, uncertainty3d)

====
